---- MODULE Spec2Model ----
(***************************************************************************)
(* A model of the kraken JSA value/object layer (bridge/jsa/include/       *)
(* js_type.h): move-only handle wrappers (Pointer and its subclasses), the *)
(* tagged Value, the refined Object casts, WeakObject, Array indexing and  *)
(* the host object / host function bridge.                                 *)
(*                                                                         *)
(* The engine adapter (JSContext, js_context.h) and the out-of-line        *)
(* members of js_type.h (Value(Value&&), ~Value, Pointer::operator=, the   *)
(* asX accessors, detail::throwJSError) are not among the source files;    *)
(* they are modelled from the written contract and marked so in the map.   *)
(***************************************************************************)
EXTENDS Integers, Sequences, FiniteSets, TLC

\* ------------------------------------------------------------------ bounds
\* Wrapper variables (C++ objects) that can be in scope at once.
NSlots == 2
\* Strong PointerValues the adapter hands out in one run.
MaxHandles == 2
\* Numbers a scalar Value is built from: 0..MaxNum.
MaxNum == 1
\* Wrappers in scope when another is built from nothing, where the accessors
\* are exercised.
MaxOperands == 1
\* The length an Array is created with or script code sets: 0..MaxLen.
MaxLen == 2
\* Arrays created in one run.
MaxArrays == 1
\* The messages a native error carries: 1..MaxMsg.
MaxMsg == 2
\* Host calls in progress at once.
MaxDepth == 1
\* PointerValues handed out beyond MaxHandles for weak references and locks.
MaxWeak == 2
\* References between objects in the graph script code builds.
MaxEdges == 2
\* Arguments of one call of a Function.
MaxArgs == 2
\* Strings a text node is given as data in one run (constructor and sets).
MaxStrings == 3

\* ------------------------------------------------- Value::ValueKind (enum)
UndefinedKind == 0
NullKind == 1
BooleanKind == 2
NumberKind == 3
SymbolKind == 4
StringKind == 5
ObjectKind == 6
PointerKind == SymbolKind

ValueKinds == UndefinedKind..ObjectKind

\* ------------------------------------------------------------ engine side
\* What an engine entity is; the last four are objects with a capability.
EntTypes == {"propname", "symbol", "string", "object", "array", "function"}
ObjectTypes == {"object", "array", "function"}
\* Objects with the capabilities isArrayBuffer / isArrayBufferView test.
BufferTypes == {"arraybuffer", "arraybufferview"}

\* The wrapper class the adapter's create call returns for an entity.
BaseClass(t) ==
  CASE t = "propname" -> "PropNameID"
    [] t = "symbol" -> "Symbol"
    [] t = "string" -> "String"
    [] OTHER -> "Object"

PointerClasses ==
  {"PropNameID", "Symbol", "String", "Object", "Array", "ArrayBuffer", "ArrayBufferView",
   "Function", "WeakObject"}
ObjectClasses == {"Object", "Array", "ArrayBuffer", "ArrayBufferView", "Function"}

Slots == 1..NSlots
Numbers == 0..MaxNum

VARIABLES
  slots,      \* the wrappers in scope: Slots -> wrapper record
  handles,    \* the PointerValues handed out so far: Seq of [ent, type, chars, weak, inv]
  collected,  \* entities the engine's collector has reclaimed
  engine,     \* the engine's heap and call stack: arrays, host payloads, frames
  status,     \* "running", or "aborted" after a fault ended the process
  last,       \* the last operation and what it answered
  misuse      \* an invalidated PointerValue was passed to the adapter

vars == <<slots, handles, collected, engine, status, last, misuse>>

\* ---------------------------------------------------------------- wrappers
\* A slot with no object in it (not yet declared, or destroyed).
NoWrapper ==
  [cls |-> "none", kind |-> UndefinedKind, mem |-> "boolean", boolean |-> FALSE,
   number |-> 0, ptr |-> 0]

\* Pointer(JSContext::PointerValue *ptr) : ptr_(ptr)
PointerOf(cls, ptr) ==
  [cls |-> cls, kind |-> UndefinedKind, mem |-> "pointer", boolean |-> FALSE,
   number |-> 0, ptr |-> ptr]

\* Value(ValueKind kind) : kind_(kind); Data() default-initialises boolean{}.
ValueOfKind(kind) ==
  [cls |-> "Value", kind |-> kind, mem |-> "boolean", boolean |-> FALSE,
   number |-> 0, ptr |-> 0]

\* placement new (&data_.pointer) T(ptr)
ValueWithPointer(kind, ptr) ==
  [ValueOfKind(kind) EXCEPT !.mem = "pointer", !.ptr = ptr]

IsValue(w) == w.cls = "Value"
IsPointer(w) == w.cls \in PointerClasses
InScope(w) == w.cls # "none"

\* What the last operation was, on which wrappers, how it ended ("ok", "assert"
\* for a failed assert, "throw" for a catchable error, "segv" for a null
\* PointerValue dereferenced by the adapter) and the scalar it returned.
NoResult == [op |-> "init", src |-> 0, dst |-> 0, out |-> "ok", val |-> 0, arg |-> ""]

Result(op, src, dst, out, val) ==
  [op |-> op, src |-> src, dst |-> dst, out |-> out, val |-> val, arg |-> ""]

\* The result of an operation instantiated for a native type (its template
\* argument).
ResultArg(op, src, dst, out, val, arg) ==
  [Result(op, src, dst, out, val) EXCEPT !.arg = arg]

\* The engine before anything was created: no array, no host payload, no host
\* callable, no call in progress, no script error thrown.
NoEngine ==
  [arrays |-> <<>>, hosts |-> <<>>, hostfns |-> <<>>, frames |-> <<>>, thrown |-> 0,
   graph |-> <<>>, walk |-> <<>>, visits |-> 0,
   called |-> [fn |-> 0, thisKind |-> UndefinedKind, thisEnt |-> 0, args |-> <<>>],
   text |-> [state |-> "none", data |-> 0, given |-> [kind |-> "none", n |-> 0],
             parent |-> <<>>],
   jsstrings |-> <<>>, commands |-> <<>>]

\* ---------------------------------------------------------------- adapter
HandleIds == 1..Len(handles)
Live(hs, h) == h \in 1..Len(hs) /\ hs[h].inv = 0

\* PointerValue::invalidate(): the adapter drops this reference.
\* The PointerValue is freed: nothing of it but the count of invalidate()
\* calls (capped at 2) is kept.
Invalidate(hs, h) ==
  [hs EXCEPT ![h] = [ent |-> 0, type |-> "freed", chars |-> 0, weak |-> FALSE,
                     inv |-> IF @.inv >= 2 THEN 2 ELSE @.inv + 1]]

\* A fresh PointerValue for a fresh entity (createObject, createString...).
NewHandle(hs, t) ==
  Append(hs, [ent |-> Len(hs) + 1, type |-> t, chars |-> 0, weak |-> FALSE, inv |-> 0])

\* createStringFromAscii(str): a fresh string entity with the characters c.
NewString(hs, c) ==
  Append(hs, [ent |-> Len(hs) + 1, type |-> "string", chars |-> c, weak |-> FALSE,
              inv |-> 0])

\* cloneObject / cloneString / cloneSymbol / clonePropNameID on a non-null
\* PointerValue: a second reference to the same entity.
CloneHandle(hs, h) ==
  Append(hs, [ent |-> hs[h].ent, type |-> hs[h].type, chars |-> hs[h].chars,
              weak |-> FALSE, inv |-> 0])

\* A strictEquals that takes two entities of one type for equal.
AdapterStrictEquals_SameType(hs, a, b) == hs[a].type = hs[b].type

\* strictEquals(a, b) on two reference wrappers: the same engine entity; two
\* strings also when they "contain the same characters" (String::strictEquals,
\* 168), as the strict equality Value::strictEquals cites (ECMA-262 11.9.4).
AdapterStrictEquals(hs, a, b) ==
  \/ hs[a].ent = hs[b].ent
  \/ hs[a].type = "string" /\ hs[b].type = "string" /\ hs[a].chars = hs[b].chars

\* The first free slot: where a newly declared variable lives.
FreeSlots == {s \in Slots : ~InScope(slots[s])}
FirstFree == CHOOSE s \in FreeSlots : \A t \in FreeSlots : s <= t

Running == status = "running"
CanAlloc == Len(handles) < MaxHandles

\* -------------------------------------------------------- Pointer (17..38)
\* Pointer(Pointer &&other): what the new object holds.
PointerMoveTarget(other) == other.ptr

\* A move constructor that forgets `other.ptr_ = nullptr`.
PointerMoveSource_KeepsPtr(other) == other

\* Pointer(Pointer &&other): what `other` is left with.
PointerMoveSource(other) == [other EXCEPT !.ptr = 0]

\* ~Pointer(): if (ptr_) ptr_->invalidate();
PointerDtor(hs, w) == IF w.ptr # 0 THEN Invalidate(hs, w.ptr) ELSE hs

\* ~Pointer() would call invalidate() on a PointerValue already freed: the
\* double release ends the process.
DtorMisuse(hs, w) == w.ptr # 0 /\ ~Live(hs, w.ptr)

\* Pointer &operator=(Pointer &&other): release what is held, adopt other's
\* PointerValue, leave other with none. Returns <<handles, this, other>>.
PointerMoveAssignResult(hs, this, other) ==
  <<PointerDtor(hs, this), [this EXCEPT !.ptr = other.ptr], [other EXCEPT !.ptr = 0]>>

\* ------------------------------------------------------- Value (612..852)
IsPointerKind(kind) == kind >= PointerKind

\* kindOf(const Symbol &) / kindOf(const String &) / kindOf(const Object &)
kindOf(cls) ==
  CASE cls = "Symbol" -> SymbolKind
    [] cls = "String" -> StringKind
    [] OTHER -> ObjectKind

\* The classes Value(T &&other) and Value(context, const T &) accept.
ValueSourceClasses == {"Symbol", "String"} \cup ObjectClasses

\* The wrapper class a getX / asX accessor of kind X returns.
ClassOfKind(kind) ==
  CASE kind = SymbolKind -> "Symbol"
    [] kind = StringKind -> "String"
    [] OTHER -> "Object"

\* Value(Value &&value): what the new Value holds.
ValueMoveTarget(other) == other

\* Value(Value &&value): what `value` is left with: no PointerValue, tag kept.
ValueMoveSource(other) ==
  IF IsPointerKind(other.kind) THEN [other EXCEPT !.ptr = 0] ELSE other

\* ~Value(): a Value of a pointer kind destroys its Pointer member.
ValueDtor(hs, w) == IF IsPointerKind(w.kind) THEN PointerDtor(hs, w) ELSE hs

ValueDtorMisuse(hs, w) == IsPointerKind(w.kind) /\ DtorMisuse(hs, w)

isUndefined(w) == w.kind = UndefinedKind
isNull(w) == w.kind = NullKind
isBool(w) == w.kind = BooleanKind
isNumber(w) == w.kind = NumberKind
isString(w) == w.kind = StringKind
isSymbol(w) == w.kind = SymbolKind
\* isObject() that takes every pointer kind for an object.
isObject_AnyPointerKind(w) == w.kind >= PointerKind

isObject(w) == w.kind = ObjectKind

\* isX() for the kind X an accessor is about.
isKind(w, kind) ==
  CASE kind = UndefinedKind -> isUndefined(w)
    [] kind = NullKind -> isNull(w)
    [] kind = BooleanKind -> isBool(w)
    [] kind = NumberKind -> isNumber(w)
    [] kind = SymbolKind -> isSymbol(w)
    [] kind = StringKind -> isString(w)
    [] OTHER -> isObject(w)

\* ------------------------------------------------------------------- Init
Init ==
  /\ slots = [s \in Slots |-> NoWrapper]
  /\ handles = <<>>
  /\ collected = {}
  /\ engine = NoEngine
  /\ status = "running"
  /\ last = NoResult
  /\ misuse = FALSE

\* The process ends in a fault: a failed assert, a null PointerValue
\* dereferenced ("segv"), or the adapter handed a freed PointerValue. Nothing
\* of the process's memory outlives it.
Abort(op, s, out, val) ==
  /\ status' = "aborted"
  /\ last' = Result(op, s, 0, out, val)
  /\ misuse' = (misuse \/ out = "freed")
  /\ slots' = [t \in Slots |-> NoWrapper]
  /\ handles' = <<>>
  /\ collected' = {}
  /\ engine' = NoEngine

\* String::createFromAscii, Object(context), PropNameID::forAscii, ...: the
\* adapter creates an entity and returns its wrapper.
Create(t) ==
  /\ Running /\ FreeSlots # {} /\ CanAlloc
  /\ handles' = NewHandle(handles, t)
  /\ slots' = [slots EXCEPT ![FirstFree] = PointerOf(BaseClass(t), Len(handles) + 1)]
  /\ last' = Result("create", 0, FirstFree, "ok", 0)
  /\ UNCHANGED <<collected, engine, status, misuse>>

\* T b(std::move(a)) for a Pointer subclass (all `= default`).
PointerMoveConstruct(s) ==
  /\ Running /\ FreeSlots # {} /\ IsPointer(slots[s])
  /\ slots' = [slots EXCEPT
       ![FirstFree] = PointerOf(slots[s].cls, PointerMoveTarget(slots[s])),
       ![s] = PointerMoveSource(slots[s])]
  /\ last' = Result("moveCtor", s, FirstFree, "ok", 0)
  /\ UNCHANGED <<handles, collected, engine, status, misuse>>

\* a = std::move(b) for two wrappers of one Pointer subclass (all `= default`).
PointerMoveAssign(d, s) ==
  /\ Running /\ IsPointer(slots[d]) /\ slots[s].cls = slots[d].cls
  /\ IF DtorMisuse(handles, slots[d])
       THEN Abort("moveAssign", s, "freed", 0)
       ELSE LET r == PointerMoveAssignResult(handles, slots[d], slots[s]) IN
              /\ handles' = r[1]
              /\ slots' = IF d = s
                            THEN [slots EXCEPT ![d] = [r[2] EXCEPT !.ptr = 0]]
                            ELSE [slots EXCEPT ![d] = r[2], ![s] = r[3]]
              /\ last' = Result("moveAssign", s, d, "ok", 0)
              /\ UNCHANGED <<collected, engine, status, misuse>>

\* A Pointer subclass object goes out of scope.
PointerDestroy(s) ==
  /\ Running /\ IsPointer(slots[s])
  /\ IF DtorMisuse(handles, slots[s])
       THEN Abort("destroy", s, "freed", 0)
       ELSE /\ handles' = PointerDtor(handles, slots[s])
            /\ slots' = [slots EXCEPT ![s] = NoWrapper]
            /\ last' = Result("destroy", s, 0, "ok", 0)
            /\ UNCHANGED <<collected, engine, status, misuse>>

\* Value(T &&other): a Symbol, String or Object rvalue is moved into a Value.
ValueFromPointer(s) ==
  /\ Running /\ FreeSlots # {} /\ slots[s].cls \in ValueSourceClasses
  /\ slots' = [slots EXCEPT
       ![FirstFree] = ValueWithPointer(kindOf(slots[s].cls), PointerMoveTarget(slots[s])),
       ![s] = PointerMoveSource(slots[s])]
  /\ last' = Result("valueFromPointer", s, FirstFree, "ok", 0)
  /\ UNCHANGED <<handles, collected, engine, status, misuse>>

\* Value b(std::move(a)).
ValueMoveConstruct(s) ==
  /\ Running /\ FreeSlots # {} /\ IsValue(slots[s])
  /\ slots' = [slots EXCEPT
       ![FirstFree] = ValueMoveTarget(slots[s]),
       ![s] = ValueMoveSource(slots[s])]
  /\ last' = Result("valueMoveCtor", s, FirstFree, "ok", 0)
  /\ UNCHANGED <<handles, collected, engine, status, misuse>>

\* A Value goes out of scope.
ValueDestroy(s) ==
  /\ Running /\ IsValue(slots[s])
  /\ IF ValueDtorMisuse(handles, slots[s])
       THEN Abort("valueDestroy", s, "freed", 0)
       ELSE /\ handles' = ValueDtor(handles, slots[s])
            /\ slots' = [slots EXCEPT ![s] = NoWrapper]
            /\ last' = Result("valueDestroy", s, 0, "ok", 0)
            /\ UNCHANGED <<collected, engine, status, misuse>>

\* T(context.cloneX(ptr)): the clone goes into a new wrapper, proto with the
\* clone as its ptr_. The
\* adapter's answer to a null PointerValue is not fixed by its contract: it
\* returns null or dereferences it.
CloneStep(op, s, val, ptr, proto) ==
  /\ FreeSlots # {}
  /\ \/ /\ ptr = 0
        /\ \/ Abort(op, s, "segv", val)
           \/ /\ slots' = [slots EXCEPT ![FirstFree] = proto]
              /\ last' = Result(op, s, FirstFree, "ok", val)
              /\ UNCHANGED <<handles, collected, engine, status, misuse>>
     \/ /\ ptr # 0 /\ ~Live(handles, ptr)
        /\ Abort(op, s, "freed", val)
     \/ /\ Live(handles, ptr) /\ CanAlloc
        /\ handles' = CloneHandle(handles, ptr)
        /\ slots' = [slots EXCEPT ![FirstFree] = [proto EXCEPT !.ptr = Len(handles) + 1]]
        /\ last' = Result(op, s, FirstFree, "ok", val)
        /\ UNCHANGED <<collected, engine, status, misuse>>

\* A hand-over that leaves the PointerValue in the source as well.
MoveOutStep_KeepsSource(op, s, val, proto) ==
  /\ FreeSlots # {}
  /\ slots' = [slots EXCEPT ![FirstFree] = [proto EXCEPT !.ptr = slots[s].ptr]]
  /\ last' = Result(op, s, FirstFree, "ok", val)
  /\ UNCHANGED <<handles, collected, engine, status, misuse>>

\* The PointerValue is handed on to a new wrapper (proto with it as ptr_); the
\* source keeps none (ptr_ = nullptr).
MoveOutStep(op, s, val, proto) ==
  /\ FreeSlots # {}
  /\ slots' = [slots EXCEPT ![FirstFree] = [proto EXCEPT !.ptr = slots[s].ptr],
                            ![s] = [slots[s] EXCEPT !.ptr = 0]]
  /\ last' = Result(op, s, FirstFree, "ok", val)
  /\ UNCHANGED <<handles, collected, engine, status, misuse>>

MakeValue(kind, ptr) == ValueWithPointer(kind, ptr)
MakePointer(cls, ptr) == PointerOf(cls, ptr)

\* PropNameID(JSContext &context, const PropNameID &other)
PropNameIDClone(s) ==
  /\ Running /\ slots[s].cls = "PropNameID"
  /\ CloneStep("clonePropNameID", s, 0, slots[s].ptr, MakePointer("PropNameID", 0))

\* A copy that shares the source's PointerValue instead of cloning it.
ValueClone_Aliases(s) ==
  /\ Running /\ slots[s].cls \in ValueSourceClasses /\ FreeSlots # {}
  /\ slots' = [slots EXCEPT
       ![FirstFree] = ValueWithPointer(kindOf(slots[s].cls), slots[s].ptr)]
  /\ last' = Result("valueClone", s, FirstFree, "ok", 0)
  /\ UNCHANGED <<handles, collected, engine, status, misuse>>

\* Value(JSContext &context, const Symbol & / const String & / const Object &)
ValueClone(s) ==
  /\ Running /\ slots[s].cls \in ValueSourceClasses
  /\ CloneStep("valueClone", s, 0, slots[s].ptr, MakeValue(kindOf(slots[s].cls), 0))

\* What `a = std::move(a)` can leave in a. ~Value() has ended a's lifetime when
\* the placement-new move constructor reads it through `other`: undefined
\* behaviour. The two stores to the one ptr_ (other.ptr_ = nullptr and the new
\* member's value) land in either order, so a ends with no PointerValue or
\* with the one it has just invalidated.
SelfMoveOutcomes(w) == {ValueMoveSource(w), ValueMoveTarget(w)}

\* Value &operator=(Value &&other): this->~Value(); new (this) Value(move(other)).
ValueMoveAssign(d, s) ==
  /\ Running /\ IsValue(slots[d]) /\ IsValue(slots[s])
  /\ IF ValueDtorMisuse(handles, slots[d])
       THEN Abort("valueMoveAssign", s, "freed", 0)
       ELSE /\ handles' = ValueDtor(handles, slots[d])
            /\ IF d = s
                 THEN \E w \in SelfMoveOutcomes(slots[d]) :
                        slots' = [slots EXCEPT ![d] = w]
                 ELSE slots' = [slots EXCEPT ![d] = ValueMoveTarget(slots[s]),
                                             ![s] = ValueMoveSource(slots[s])]
            /\ last' = Result("valueMoveAssign", s, d, "ok", 0)
            /\ UNCHANGED <<collected, engine, status, misuse>>

PointerKinds == {SymbolKind, StringKind, ObjectKind}

\* getSymbol / getString / getObject (context) const &
ValueGetLvalue(s, kind) ==
  /\ Running /\ IsValue(slots[s])
  /\ IF ~isKind(slots[s], kind)
       THEN Abort("getLvalue", s, "assert", kind)
       ELSE CloneStep("getLvalue", s, kind, slots[s].ptr, MakePointer(ClassOfKind(kind), 0))

\* getSymbol / getString / getObject (context) &&
ValueGetRvalue(s, kind) ==
  /\ Running /\ IsValue(slots[s])
  /\ IF ~isKind(slots[s], kind)
       THEN Abort("getRvalue", s, "assert", kind)
       ELSE MoveOutStep("getRvalue", s, kind, MakePointer(ClassOfKind(kind), 0))

\* The refined wrappers an Object can be cast to, and the entity each needs.
RefinedClasses == {"Array", "Function"}
\* All four that have an unchecked cast (getArray, getArrayBuffer,
\* getArrayBufferView, getFunction).
CastClasses == RefinedClasses \cup {"ArrayBuffer", "ArrayBufferView"}
\* The number a cast is recorded under in `last`.
CastId(cls) ==
  CASE cls = "Array" -> 1
    [] cls = "Function" -> 2
    [] cls = "ArrayBuffer" -> 3
    [] OTHER -> 4

TypeOfClass(cls) ==
  CASE cls = "Array" -> "array"
    [] cls = "Function" -> "function"
    [] cls = "ArrayBuffer" -> "arraybuffer"
    [] cls = "ArrayBufferView" -> "arraybufferview"
    [] OTHER -> "object"

\* context.isArray / isArrayBuffer / isArrayBufferView / isFunction (*this):
\* the adapter asks the engine.
HasCapability(hs, ptr, cls) == hs[ptr].type = TypeOfClass(cls)

\* Whether the cast to cls asserts its capability test: all but
\* getArrayBufferView(context) &&, which has no assert.
CastAsserts(cls, rvalue) == ~(cls = "ArrayBufferView" /\ rvalue)

\* The assert of a refined cast: "ok", or the fault it ends in.
CastCheck(hs, w, cls, rvalue) ==
  IF ~CastAsserts(cls, rvalue) THEN "ok"
  ELSE IF w.ptr = 0 THEN "segv"
  ELSE IF ~Live(hs, w.ptr) THEN "freed"
  ELSE IF HasCapability(hs, w.ptr, cls) THEN "ok" ELSE "assert"

\* Object::getArray / getArrayBuffer / getArrayBufferView / getFunction
\* (context) const &
ObjectGetLvalue(s, cls) ==
  /\ Running /\ slots[s].cls \in ObjectClasses
  /\ LET chk == CastCheck(handles, slots[s], cls, FALSE) IN
       IF chk # "ok"
         THEN Abort("castLvalue", s, chk, CastId(cls))
         ELSE CloneStep("castLvalue", s, CastId(cls), slots[s].ptr, MakePointer(cls, 0))

\* Object::getArray / getArrayBuffer / getArrayBufferView / getFunction
\* (context) &&
ObjectGetRvalue(s, cls) ==
  /\ Running /\ slots[s].cls \in ObjectClasses
  /\ LET chk == CastCheck(handles, slots[s], cls, TRUE) IN
       IF chk # "ok"
         THEN Abort("castRvalue", s, chk, CastId(cls))
         ELSE MoveOutStep("castRvalue", s, CastId(cls), MakePointer(cls, 0))

\* ----------------------------------------------- scalar Values (614..685)
ScalarCtors ==
  {"Value()", "Value(nullptr)", "Value(bool)", "Value(double)", "Value(int)",
   "Value::undefined()", "Value::null()"}

\* Scalar constructors whose Value(nullptr) forgets the NullKind tag.
ScalarValue_NullIsUndefined(ctor, b, n) ==
  CASE ctor = "Value(bool)" -> [ValueOfKind(BooleanKind) EXCEPT !.boolean = b]
    [] ctor \in {"Value(double)", "Value(int)"} ->
         [ValueOfKind(NumberKind) EXCEPT !.mem = "number", !.number = n]
    [] OTHER -> ValueOfKind(UndefinedKind)

\* The Value each scalar constructor or factory builds from (b, n).
ScalarValue(ctor, b, n) ==
  CASE ctor = "Value()" -> ValueOfKind(UndefinedKind)
    [] ctor = "Value(nullptr)" -> ValueOfKind(NullKind)
    [] ctor = "Value(bool)" -> [ValueOfKind(BooleanKind) EXCEPT !.boolean = b]
    [] ctor = "Value(double)" ->
         [ValueOfKind(NumberKind) EXCEPT !.mem = "number", !.number = n]
    [] ctor = "Value(int)" ->
         [ValueOfKind(NumberKind) EXCEPT !.mem = "number", !.number = n]
    [] ctor = "Value::undefined()" -> ValueOfKind(UndefinedKind)
    [] OTHER -> ValueOfKind(NullKind)

\* The arguments a scalar constructor takes: (b, n), fixed where it has none.
ScalarArgs(ctor) ==
  CASE ctor = "Value(bool)" -> BOOLEAN \X {0}
    [] ctor \in {"Value(double)", "Value(int)"} -> {FALSE} \X Numbers
    [] OTHER -> {<<FALSE, 0>>}

ConstructScalar(ctor, b, n) ==
  /\ Running /\ FreeSlots # {} /\ <<b, n>> \in ScalarArgs(ctor)
  /\ slots' = [slots EXCEPT ![FirstFree] = ScalarValue(ctor, b, n)]
  /\ last' = Result(ctor, 0, FirstFree, "ok", 0)
  /\ UNCHANGED <<handles, collected, engine, status, misuse>>

\* An operation that answers a scalar, or throws, and changes nothing else.
Answer(op, s, out, val) ==
  /\ last' = Result(op, s, 0, out, val)
  /\ UNCHANGED <<slots, handles, collected, engine, status, misuse>>

BoolVal(b) == IF b THEN 1 ELSE 0

\* Whether getBool asserts isBool() (it does not: it only returns).
GetBoolAsserts == FALSE

\* bool getBool() const { return data_.boolean; }  A read of the union member
\* that is not the active one yields either bit.
ValueGetBool(s) ==
  /\ Running /\ IsValue(slots[s])
  /\ IF GetBoolAsserts /\ ~isBool(slots[s])
       THEN Abort("getBool", s, "assert", 0)
       ELSE \E b \in BOOLEAN :
              /\ slots[s].mem = "boolean" => b = slots[s].boolean
              /\ Answer("getBool", s, "ok", BoolVal(b))

\* double getNumber() const { assert(isNumber()); return data_.number; }
ValueGetNumber(s) ==
  /\ Running /\ IsValue(slots[s])
  /\ IF ~isNumber(slots[s])
       THEN Abort("getNumber", s, "assert", 0)
       ELSE Answer("getNumber", s, "ok", slots[s].number)

\* double asNumber() const: throws JSAException if not a number.
ValueAsNumber(s) ==
  /\ Running /\ IsValue(slots[s])
  /\ IF ~isNumber(slots[s])
       THEN Answer("asNumber", s, "throw", 0)
       ELSE Answer("asNumber", s, "ok", slots[s].number)

\* asSymbol / asString / asObject (context) const &
ValueAsLvalue(s, kind) ==
  /\ Running /\ IsValue(slots[s])
  /\ IF ~isKind(slots[s], kind)
       THEN Answer("asLvalue", s, "throw", kind)
       ELSE CloneStep("asLvalue", s, kind, slots[s].ptr, MakePointer(ClassOfKind(kind), 0))

\* asSymbol / asString / asObject (context) &&
ValueAsRvalue(s, kind) ==
  /\ Running /\ IsValue(slots[s])
  /\ IF ~isKind(slots[s], kind)
       THEN Answer("asRvalue", s, "throw", kind)
       ELSE MoveOutStep("asRvalue", s, kind, MakePointer(ClassOfKind(kind), 0))

\* The test of a checked cast: "ok", "throw", or the fault of the adapter's
\* capability query.
AsCheck(hs, w, cls) ==
  IF w.ptr = 0 THEN "segv"
  ELSE IF ~Live(hs, w.ptr) THEN "freed"
  ELSE IF HasCapability(hs, w.ptr, cls) THEN "ok" ELSE "throw"

\* Object::asArray / asFunction (context) const &
ObjectAsLvalue(s, cls) ==
  /\ Running /\ slots[s].cls \in ObjectClasses
  /\ LET chk == AsCheck(handles, slots[s], cls) IN
       CASE chk = "ok" ->
              CloneStep("asCastLvalue", s, CastId(cls), slots[s].ptr, MakePointer(cls, 0))
         [] chk = "throw" -> Answer("asCastLvalue", s, "throw", CastId(cls))
         [] OTHER -> Abort("asCastLvalue", s, chk, CastId(cls))

\* Object::asArray / asFunction (context) &&
ObjectAsRvalue(s, cls) ==
  /\ Running /\ slots[s].cls \in ObjectClasses
  /\ LET chk == AsCheck(handles, slots[s], cls) IN
       CASE chk = "ok" ->
              MoveOutStep("asCastRvalue", s, CastId(cls), MakePointer(cls, 0))
         [] chk = "throw" -> Answer("asCastRvalue", s, "throw", CastId(cls))
         [] OTHER -> Abort("asCastRvalue", s, chk, CastId(cls))

\* ------------------------------------------------ Array (401..449, 1035..1041)
\* The entity the live PointerValue h refers to.
EntOf(hs, h) == hs[h].ent

\* createArray(length): an array of `length` undefined elements.
CreateArray(arrays, e, n) == (e :> [k \in 1..n |-> ValueOfKind(UndefinedKind)]) @@ arrays

\* An index test that takes the range for [0, length].
InRange_UpToLength(i, n) == i <= n

\* The adapter's index test: i is in [0, length), length read at the call.
InRange(i, n) == i < n

\* context.getValueAtIndex(array, i): <<how it ended, the Value returned>>. A
\* property that is not there reads as undefined.
AdapterGetValueAtIndex(elems, i) ==
  IF ~InRange(i, Len(elems)) THEN <<"throw", ValueOfKind(UndefinedKind)>>
  ELSE <<"ok", IF i + 1 \in DOMAIN elems THEN elems[i + 1] ELSE ValueOfKind(UndefinedKind)>>

\* context.setValueAtIndexImpl(array, i, value): <<how it ended, the elements>>.
AdapterSetValueAtIndex(elems, i, v) ==
  IF ~InRange(i, Len(elems)) THEN <<"throw", elems>>
  ELSE <<"ok", [k \in 1..(IF i + 1 > Len(elems) THEN i + 1 ELSE Len(elems)) |->
                  IF k = i + 1 THEN v
                  ELSE IF k \in DOMAIN elems THEN elems[k] ELSE ValueOfKind(UndefinedKind)]>>

\* detail::toValue(JSContext &, double d) { return Value(d); }
toValue(d) == ScalarValue("Value(double)", FALSE, d)

\* Array(JSContext &context, size_t length) : Array(context.createArray(length))
ArrayCreate(n) ==
  /\ Running /\ FreeSlots # {} /\ CanAlloc
  /\ Cardinality(DOMAIN engine.arrays) < MaxArrays
  /\ handles' = NewHandle(handles, "array")
  /\ slots' = [slots EXCEPT ![FirstFree] = PointerOf("Array", Len(handles) + 1)]
  /\ engine' = [engine EXCEPT !.arrays = CreateArray(@, Len(handles) + 1, n)]
  /\ last' = Result("createArray", 0, FirstFree, "ok", n)
  /\ UNCHANGED <<collected, status, misuse>>

\* Value Array::getValueAtIndex(JSContext &context, size_t i) const. The Value
\* returned is kept in a new variable, or is a temporary when no slot is free.
ArrayGetValueAtIndex(s, i) ==
  /\ Running /\ slots[s].cls = "Array" /\ Live(handles, slots[s].ptr)
  /\ LET r == AdapterGetValueAtIndex(engine.arrays[EntOf(handles, slots[s].ptr)], i) IN
       IF r[1] = "throw"
         THEN Answer("getValueAtIndex", s, "throw", i)
         ELSE /\ slots' = IF FreeSlots # {} THEN [slots EXCEPT ![FirstFree] = r[2]]
                          ELSE slots
              /\ last' = Result("getValueAtIndex", s,
                                IF FreeSlots # {} THEN FirstFree ELSE 0, "ok", i)
              /\ UNCHANGED <<handles, collected, engine, status, misuse>>

\* void Array::setValueAtIndex(JSContext &context, size_t i, T &&value), T a
\* double.
ArraySetValueAtIndex(s, i, d) ==
  /\ Running /\ slots[s].cls = "Array" /\ Live(handles, slots[s].ptr)
  /\ LET e == EntOf(handles, slots[s].ptr)
         r == AdapterSetValueAtIndex(engine.arrays[e], i, toValue(d))
     IN /\ engine' = [engine EXCEPT !.arrays[e] = r[2]]
        /\ last' = Result("setValueAtIndex", s, 0, r[1], i)
        /\ UNCHANGED <<slots, handles, collected, status, misuse>>

\* Script code assigns the array's length: the elements past it are dropped,
\* new ones are undefined.
ScriptSetLength(e, n) ==
  /\ Running /\ e \in DOMAIN engine.arrays /\ n # Len(engine.arrays[e])
  /\ engine' = [engine EXCEPT !.arrays[e] =
                  [k \in 1..n |-> IF k <= Len(@) THEN @[k] ELSE ValueOfKind(UndefinedKind)]]
  /\ last' = Result("scriptSetLength", 0, 0, "ok", n)
  /\ UNCHANGED <<slots, handles, collected, status, misuse>>

\* ------------------------------------- host objects (196..198, 1002..1020)
\* The native classes of the payloads: T, D derived from T, U unrelated to
\* both; all derive from HostObject.
PayloadTypes == {"T", "D", "U"}
\* The template arguments isHostObject<> / asHostObject<> are instantiated for.
RequestTypes == {"HostObject", "T", "U"}

\* A null std::shared_ptr<HostObject>.
NoPayload == [type |-> "none", id |-> 0]

\* Whether an object of dynamic class dyn is a `target`.
IsA(dyn, target) ==
  \/ dyn \in PayloadTypes /\ target = "HostObject"
  \/ dyn = target
  \/ dyn = "D" /\ target = "T"

\* std::dynamic_pointer_cast<target>(p): p, or null when *p is no `target`.
DynamicPointerCast(target, p) == IF IsA(p.type, target) THEN p ELSE NoPayload
\* std::static_pointer_cast<target>(p): p, whatever *p is.
StaticPointerCast(target, p) == p

\* context.createObject(ho): the engine object keeps the payload.
CreateHostObject(hosts, e, t) == (e :> [type |-> t, id |-> e]) @@ hosts
\* context.isHostObject(object)
AdapterIsHostObject(eng, e) == e \in DOMAIN eng.hosts
\* context.getHostObject(object)
AdapterGetHostObject(eng, e) == IF e \in DOMAIN eng.hosts THEN eng.hosts[e] ELSE NoPayload

\* template <typename T> bool Object::isHostObject(JSContext &) const, and its
\* specialisation for HostObject.
isHostObject(eng, e, T) ==
  IF T = "HostObject" THEN AdapterIsHostObject(eng, e)
  ELSE AdapterIsHostObject(eng, e)
         /\ DynamicPointerCast(T, AdapterGetHostObject(eng, e)) # NoPayload

\* asHostObject<T> that does not test isHostObject<T>.
AsHostObjectThrows_Never(eng, e, T) == FALSE

\* asHostObject<T>: if (!isHostObject<T>(context)) detail::throwJSError(...)
AsHostObjectThrows(eng, e, T) == ~isHostObject(eng, e, T)

\* static Object createFromHostObject(JSContext &, std::shared_ptr<HostObject>)
CreateFromHostObject(t) ==
  /\ Running /\ FreeSlots # {} /\ CanAlloc
  /\ handles' = NewHandle(handles, "object")
  /\ slots' = [slots EXCEPT ![FirstFree] = PointerOf("Object", Len(handles) + 1)]
  /\ engine' = [engine EXCEPT !.hosts = CreateHostObject(@, Len(handles) + 1, t)]
  /\ last' = ResultArg("createFromHostObject", 0, FirstFree, "ok", Len(handles) + 1, t)
  /\ UNCHANGED <<collected, status, misuse>>

\* object.isHostObject<T>(context)
ObjectIsHostObject(s, T) ==
  /\ Running /\ slots[s].cls \in ObjectClasses /\ Live(handles, slots[s].ptr)
  /\ last' = ResultArg("isHostObject", s, 0, "ok",
                       BoolVal(isHostObject(engine, EntOf(handles, slots[s].ptr), T)), T)
  /\ UNCHANGED <<slots, handles, collected, engine, status, misuse>>

\* object.asHostObject<T>(context): the payload's id is answered; throwJSError
\* raises a catchable JSError and does not return.
ObjectAsHostObject(s, T) ==
  /\ Running /\ slots[s].cls \in ObjectClasses /\ Live(handles, slots[s].ptr)
  /\ LET e == EntOf(handles, slots[s].ptr) IN
       last' = IF AsHostObjectThrows(engine, e, T)
                 THEN ResultArg("asHostObject", s, 0, "throw", 0, T)
                 ELSE ResultArg("asHostObject", s, 0, "ok",
                                StaticPointerCast(T, AdapterGetHostObject(engine, e)).id, T)
  /\ UNCHANGED <<slots, handles, collected, engine, status, misuse>>

\* object.getHostObject<T>(context): assert(isHostObject<T>(context)), then the
\* payload, statically cast.
ObjectGetHostObject(s, T) ==
  /\ Running /\ slots[s].cls \in ObjectClasses /\ Live(handles, slots[s].ptr)
  /\ LET e == EntOf(handles, slots[s].ptr) IN
       IF ~isHostObject(engine, e, T)
         THEN Abort("getHostObject", s, "assert", 0)
         ELSE /\ last' = ResultArg("getHostObject", s, 0, "ok",
                                   StaticPointerCast(T, AdapterGetHostObject(engine, e)).id, T)
              /\ UNCHANGED <<slots, handles, collected, engine, status, misuse>>

\* -------------------------------- host callables (516..529, 1043..1051)
HostCallableKinds == {"function", "class"}
Messages == 1..MaxMsg

\* context.createFunctionFromHostFunction / createClassFromHostClass: the
\* engine keeps the native callable behind the function object.
CreateHostCallable(hostfns, e, k) == (e :> k) @@ hostfns

\* A boundary that lets the native error through.
Trampoline_Rethrows(m) == [thrown |-> 0, escaped |-> TRUE]

\* The adapter's boundary around the native callable: a native error with
\* message m is caught and a script error with that message is thrown to the
\* calling script.
Trampoline(m) == [thrown |-> m, escaped |-> FALSE]

\* Function::createFromHostFunction / createFromHostClass(context, name, ...)
CreateFromHostCallable(k) ==
  /\ Running /\ FreeSlots # {} /\ CanAlloc
  /\ handles' = NewHandle(handles, "function")
  /\ slots' = [slots EXCEPT ![FirstFree] = PointerOf("Function", Len(handles) + 1)]
  /\ engine' = [engine EXCEPT !.hostfns = CreateHostCallable(@, Len(handles) + 1, k)]
  /\ last' = ResultArg("createFromHostCallable", 0, FirstFree, "ok", Len(handles) + 1, k)
  /\ UNCHANGED <<collected, status, misuse>>

\* Script code calls host function e (or constructs with `new` from host class
\* e): the engine enters the native callable.
ScriptInvoke(e) ==
  /\ Running /\ e \in DOMAIN engine.hostfns /\ Len(engine.frames) < MaxDepth
  /\ engine' = [engine EXCEPT !.frames = Append(@, e), !.thrown = 0]
  /\ last' = ResultArg("scriptInvoke", 0, 0, "ok", e, engine.hostfns[e])
  /\ UNCHANGED <<slots, handles, collected, status, misuse>>

\* The native callable returns a value to the script.
HostReturn ==
  /\ Running /\ engine.frames # <<>>
  /\ engine' = [engine EXCEPT !.frames = SubSeq(@, 1, Len(@) - 1), !.thrown = 0]
  /\ last' = Result("hostReturn", 0, 0, "ok", 0)
  /\ UNCHANGED <<slots, handles, collected, status, misuse>>

\* The native callable raises an error with message m. A native error that
\* crosses the engine's call frames ends the process.
HostRaise(m) ==
  /\ Running /\ engine.frames # <<>>
  /\ LET t == Trampoline(m) IN
       IF t.escaped
         THEN Abort("hostRaise", 0, "escaped", m)
         ELSE /\ engine' = [engine EXCEPT !.frames = SubSeq(@, 1, Len(@) - 1),
                                          !.thrown = t.thrown]
              /\ last' = Result("hostRaise", 0, 0, "scriptError", m)
              /\ UNCHANGED <<slots, handles, collected, status, misuse>>

\* ------------------------------------------ WeakObject (377..397, 1031..1033)
\* Some live strong PointerValue refers to entity e.
Strong(hs, e) == \E h \in 1..Len(hs) : hs[h].inv = 0 /\ ~hs[h].weak /\ hs[h].ent = e
\* Some live weak PointerValue observes entity e.
Observed(hs, e) == \E h \in 1..Len(hs) : hs[h].inv = 0 /\ hs[h].weak /\ hs[h].ent = e

\* PointerValues left for weak references and what lock returns.
CanAllocWeak == Len(handles) < MaxHandles + MaxWeak

\* context.createWeakObject(o): a PointerValue that does not keep o's entity.
WeakHandle(hs, h) ==
  Append(hs, [ent |-> hs[h].ent, type |-> hs[h].type, chars |-> hs[h].chars,
              weak |-> TRUE, inv |-> 0])

\* context.lockWeakObject(weak): the referent if the collector has not
\* reclaimed it, undefined otherwise.
AdapterLockWeakObject(hs, col, h) == IF hs[h].ent \in col THEN "undefined" ELSE "object"

\* A lock that never finds the referent.
WeakObjectLock_AlwaysUndefined(hs, col, h) == "undefined"

\* Value WeakObject::lock(JSContext &context) { return context.lockWeakObject(*this); }
WeakObjectLock(hs, col, h) == AdapterLockWeakObject(hs, col, h)

\* WeakObject(JSContext &context, const Object &o)
WeakObjectCreate(s) ==
  /\ Running /\ FreeSlots # {} /\ CanAllocWeak
  /\ slots[s].cls \in ObjectClasses /\ Live(handles, slots[s].ptr)
  /\ handles' = WeakHandle(handles, slots[s].ptr)
  /\ slots' = [slots EXCEPT ![FirstFree] = PointerOf("WeakObject", Len(handles) + 1)]
  /\ last' = Result("createWeak", s, FirstFree, "ok", 0)
  /\ UNCHANGED <<collected, engine, status, misuse>>

\* weak.lock(context). The Value returned is kept in a new variable, or is a
\* temporary, destroyed at once, when no slot is free.
WeakLock(s) ==
  /\ Running /\ slots[s].cls = "WeakObject" /\ Live(handles, slots[s].ptr)
  /\ LET h == slots[s].ptr
         g == Len(handles) + 1
         kept == FreeSlots # {}
         d == IF kept THEN FirstFree ELSE 0
     IN IF WeakObjectLock(handles, collected, h) = "undefined"
          THEN /\ slots' = IF kept THEN [slots EXCEPT ![d] = ValueOfKind(UndefinedKind)]
                           ELSE slots
               /\ last' = Result("lock", s, d, "undefined", 0)
               /\ UNCHANGED <<handles, collected, engine, status, misuse>>
          ELSE /\ CanAllocWeak
               /\ handles' = IF kept THEN CloneHandle(handles, h)
                             ELSE Invalidate(CloneHandle(handles, h), g)
               /\ slots' = IF kept THEN [slots EXCEPT ![d] = ValueWithPointer(ObjectKind, g)]
                           ELSE slots
               /\ last' = Result("lock", s, d, "object", 0)
               /\ UNCHANGED <<collected, engine, status, misuse>>

\* The engine's collector reclaims entity e, which a weak reference observes
\* and no strong PointerValue keeps.
Collect(e) ==
  /\ Running /\ e \notin collected
  /\ Observed(handles, e) /\ ~Strong(handles, e)
  /\ collected' = collected \cup {e}
  /\ last' = Result("collect", 0, 0, "ok", e)
  /\ UNCHANGED <<slots, handles, engine, status, misuse>>

\* --------------------------------------------------- Value::toJSON (806)
\* The objects property values of object e refer to, in property order.
Children(g, e) == IF e \in DOMAIN g THEN g[e] ELSE <<>>

\* The references the object graph holds in all.
Edges(g) == LET RECURSIVE Sum(_)
                Sum(S) == IF S = {} THEN 0
                          ELSE LET e == CHOOSE x \in S : TRUE
                               IN Len(g[e]) + Sum(S \ {e})
            IN Sum(DOMAIN g)

\* The entities the live strong PointerValues refer to.
LiveEntities(hs) == {hs[h].ent : h \in {k \in 1..Len(hs) : hs[k].inv = 0 /\ ~hs[k].weak}}

\* A walk that takes no object for one it is inside of.
OnPath_Never(walk, e) == FALSE

\* The serializer's cycle test: e is an object the walk is inside of.
OnPath(walk, e) == \E k \in 1..Len(walk) : walk[k].node = e

\* toJSON is walking an object graph.
Walking == engine.walk # <<>>

\* Script code sets a property of object a to object b.
ScriptSetProperty(a, b) ==
  /\ Running /\ ~Walking /\ Edges(engine.graph) < MaxEdges
  /\ a \in LiveEntities(handles) /\ b \in LiveEntities(handles)
  /\ engine' = [engine EXCEPT !.graph = (a :> Append(Children(@, a), b)) @@ @]
  /\ last' = Result("scriptSetProperty", 0, 0, "ok", a)
  /\ UNCHANGED <<slots, handles, collected, status, misuse>>

\* std::string Value::toJSON(JSContext &context) const: a scalar is serialized
\* at once; for an object the structural walk starts at its entity.
ValueToJSON(s) ==
  /\ Running /\ ~Walking /\ IsValue(slots[s])
  /\ IF isObject(slots[s]) /\ Live(handles, slots[s].ptr)
       THEN /\ engine' = [engine EXCEPT
                  !.walk = <<[node |-> EntOf(handles, slots[s].ptr), idx |-> 0]>>,
                  !.visits = 1]
            /\ last' = Result("toJSONBegin", s, 0, "ok", 0)
            /\ UNCHANGED <<slots, handles, collected, status, misuse>>
       ELSE /\ ~IsPointerKind(slots[s].kind)
            /\ Answer("toJSON", s, "ok", 0)

\* One step of the walk: the object on top is left when its properties are
\* done; else its next property is entered, or the walk ends in a
\* serialization error when that property refers to an object it is inside of.
JsonStep ==
  /\ Running /\ Walking
  /\ LET n == Len(engine.walk)
         top == engine.walk[n]
         c == Children(engine.graph, top.node)
     IN IF top.idx = Len(c)
          THEN /\ engine' = [engine EXCEPT !.walk = SubSeq(@, 1, n - 1),
                                            !.visits = IF n = 1 THEN 0 ELSE @]
               /\ last' = IF n = 1 THEN Result("toJSON", last.src, 0, "ok", engine.visits)
                          ELSE Result("toJSONStep", last.src, 0, "ok", 0)
          ELSE IF OnPath(engine.walk, c[top.idx + 1])
            THEN /\ engine' = [engine EXCEPT !.walk = <<>>, !.visits = 0]
                 /\ last' = Result("toJSON", last.src, 0, "throw", 0)
            ELSE /\ engine' = [engine EXCEPT
                       !.walk = Append([@ EXCEPT ![n].idx = top.idx + 1],
                                       [node |-> c[top.idx + 1], idx |-> 0]),
                       !.visits = @ + 1]
                 /\ last' = Result("toJSONStep", last.src, 0, "ok", 0)
  /\ UNCHANGED <<slots, handles, collected, status, misuse>>

\* ------------------------------------------- Value::strictEquals (690..692)
\* static bool Value::strictEquals(JSContext &, const Value &a, const Value &b):
\* Values of different kinds are not equal, scalars are compared by value,
\* references by the adapter.
ValueStrictEquals(hs, a, b) ==
  IF a.kind # b.kind THEN FALSE
  ELSE CASE a.kind = BooleanKind -> a.boolean = b.boolean
         [] a.kind = NumberKind -> a.number = b.number
         [] IsPointerKind(a.kind) -> AdapterStrictEquals(hs, a.ptr, b.ptr)
         [] OTHER -> TRUE

\* Value v(String::createFromAscii(context, str)), Value v(Object(context)), ...:
\* Value(T &&other) applied to the wrapper the adapter has just returned.
ValueOfNew(t, c) ==
  /\ Running /\ FreeSlots # {} /\ CanAlloc
  /\ handles' = IF t = "string" THEN NewString(handles, c) ELSE NewHandle(handles, t)
  /\ slots' = [slots EXCEPT
       ![FirstFree] = ValueWithPointer(kindOf(BaseClass(t)), Len(handles) + 1)]
  /\ last' = Result("valueOfNew", 0, FirstFree, "ok", c)
  /\ UNCHANGED <<collected, engine, status, misuse>>

\* Value(JSContext &context, const Value &value): a scalar is copied, a
\* reference is cloned.
ValueCopy(s) ==
  /\ Running /\ IsValue(slots[s])
  /\ IF IsPointerKind(slots[s].kind)
       THEN CloneStep("valueCopy", s, 0, slots[s].ptr, MakeValue(slots[s].kind, 0))
       ELSE /\ FreeSlots # {}
            /\ slots' = [slots EXCEPT ![FirstFree] = slots[s]]
            /\ last' = Result("valueCopy", s, FirstFree, "ok", 0)
            /\ UNCHANGED <<handles, collected, engine, status, misuse>>

\* Value::strictEquals(context, a, b) on the Values in slots a and b, each a
\* scalar or holding a live PointerValue.
StrictEquals(a, b) ==
  /\ Running /\ IsValue(slots[a]) /\ IsValue(slots[b])
  /\ \A s \in {a, b} : IsPointerKind(slots[s].kind) => Live(handles, slots[s].ptr)
  /\ last' = Result("strictEquals", a, b, "ok",
                    BoolVal(ValueStrictEquals(handles, slots[a], slots[b])))
  /\ UNCHANGED <<slots, handles, collected, engine, status, misuse>>

\* ------------------------------------ Function::call (531..547, 1053..1082)
CallOverloads == {"pointer", "list", "variadic"}

\* The argument lists a call is made with: up to MaxArgs numbers, counting
\* up, so that no two neighbours are equal.
ArgLists == {[i \in 1..n |-> i % (MaxNum + 1)] : n \in 0..MaxArgs}

\* context.call(function, jsThis, args, count): what the engine is called with.
AdapterCall(hs, fn, this, args, count) ==
  [fn |-> hs[fn].ent,
   thisKind |-> this.kind,
   thisEnt |-> IF IsPointerKind(this.kind) THEN hs[this.ptr].ent ELSE 0,
   args |-> SubSeq(args, 1, count)]

\* An initializer_list overload that passes one argument less.
ListArgs_DropsLast(args) == <<args, IF Len(args) = 0 THEN 0 ELSE Len(args) - 1>>

\* call(context, std::initializer_list<Value> args): args.begin(), args.size()
ListArgs(args) == <<args, Len(args)>>

\* call(context, Args &&... args): {detail::toValue(context, args)...}
VariadicArgs(ds) == [i \in 1..Len(ds) |-> toValue(ds[i])]

\* The <<args, count>> an overload hands to the (const Value *, size_t) one.
Marshal(ov, ds) ==
  CASE ov = "pointer" -> <<VariadicArgs(ds), Len(ds)>>
    [] ov = "list" -> ListArgs(VariadicArgs(ds))
    [] OTHER -> ListArgs(VariadicArgs(ds))

\* PointerValues left for the temporary Value(context, jsThis) of a call.
CanAllocThis == Len(handles) < MaxHandles + 1

\* function.call(context, ...): context.call(*this, Value::undefined(), args, count)
FunctionCall(f, ov, ds) ==
  /\ Running /\ slots[f].cls = "Function" /\ Live(handles, slots[f].ptr)
  /\ LET m == Marshal(ov, ds) IN
       engine' = [engine EXCEPT !.called =
                    AdapterCall(handles, slots[f].ptr,
                                ScalarValue("Value::undefined()", FALSE, 0), m[1], m[2])]
  /\ last' = ResultArg("call", f, 0, "ok", 0, ds)
  /\ UNCHANGED <<slots, handles, collected, status, misuse>>

\* function.callWithThis(context, jsThis, ...):
\* context.call(*this, Value(context, jsThis), args, count); the temporary
\* Value, a clone of jsThis, is destroyed when the call has returned.
FunctionCallWithThis(f, t, ov, ds) ==
  /\ Running /\ slots[f].cls = "Function" /\ Live(handles, slots[f].ptr)
  /\ slots[t].cls \in ObjectClasses /\ Live(handles, slots[t].ptr) /\ CanAllocThis
  /\ LET m == Marshal(ov, ds)
         g == Len(handles) + 1
         cloned == CloneHandle(handles, slots[t].ptr)
     IN /\ engine' = [engine EXCEPT !.called =
                        AdapterCall(cloned, slots[f].ptr,
                                    ValueWithPointer(kindOf(slots[t].cls), g), m[1], m[2])]
        /\ handles' = ValueDtor(cloned, ValueWithPointer(kindOf(slots[t].cls), g))
  /\ last' = ResultArg("callWithThis", f, t, "ok", 0, ds)
  /\ UNCHANGED <<slots, collected, status, misuse>>

\* ------------------------------------------- TextNodeInstance (text_node.cc)
\* The script values a text node is given: numbers and strings, which convert
\* to a string (the number n and the string "n" to the same characters), and a
\* symbol, whose conversion throws.
ScriptValues == [kind : {"number", "string"}, n : Numbers] \cup {[kind |-> "symbol", n |-> 0]}

\* JSValueToStringCopy(ctx, value, exception) returns NULL and sets *exception.
ToStringThrows(v) == v.kind = "symbol"
\* The characters of the string JSValueToStringCopy returns.
ToStringChars(v) == v.n
\* The characters JSValueMakeString / JSStringToStdString see in a NULL string.
NoChars == 0 - 1

\* A conversion that yields the empty string for every value.
StringCopy_Empty(strs, v) == Append(strs, [chars |-> NoChars, rc |-> 1, acquired |-> 1,
                                           released |-> 0])

\* JSValueToStringCopy: a new JSString the caller owns one reference to.
StringCopy(strs, v) == Append(strs, [chars |-> ToStringChars(v), rc |-> 1, acquired |-> 1,
                                     released |-> 0])
\* JSStringRetain(string)
StringRetain(strs, k) == [strs EXCEPT ![k].rc = @ + 1, ![k].acquired = @ + 1]
\* JSStringRelease(string)
StringRelease(strs, k) == [strs EXCEPT ![k].rc = @ - 1, ![k].released = @ + 1]

\* data = JSValueToStringCopy(ctx, value, exception); JSStringRetain(data):
\* what instanceConstructor with TextNodeInstance's initialiser, and
\* setProperty, do to take a value as the node's data.
TextNodeAdopt(strs, v) == StringRetain(StringCopy(strs, v), Len(strs) + 1)

\* A command queue that takes each new command at its head.
RegisterCommand_AtFront(cmds, type, chars) == <<[type |-> type, chars |-> chars]>> \o cmds

\* foundation::UICommandTaskMessageQueue::registerCommand(id, type, args, ...)
RegisterCommand(cmds, type, chars) == Append(cmds, [type |-> type, chars |-> chars])

\* getTextNodePropertyMap() with a fourth property the switch has no case for.
TextNodePropertyMap_WithNodeType ==
  ("data" :> "kData") @@ ("textContent" :> "kTextContent") @@ ("nodeName" :> "kNodeName")
    @@ ("nodeType" :> "kNodeType")

\* getTextNodePropertyMap()
TextNodePropertyMap ==
  ("data" :> "kData") @@ ("textContent" :> "kTextContent") @@ ("nodeName" :> "kNodeName")

\* getProperty: the path a name takes: the parent's getProperty, a case of the
\* switch, or the end of the function, reached without a return.
GetPropertyPath(name) ==
  IF name \notin DOMAIN TextNodePropertyMap THEN "parent"
  ELSE CASE TextNodePropertyMap[name] \in {"kTextContent", "kData"} -> "data"
         [] TextNodePropertyMap[name] = "kNodeName" -> "#text"
         [] OTHER -> "none"

PropertyNames == {"data", "textContent", "nodeName", "nodeType"}

\* A setProperty that forwards every name but "data" to the parent.
ParentSetProperty_NotData(calls, name) == IF name = "data" THEN calls ELSE Append(calls, name)

\* JSNode::NodeInstance::setProperty(name, value, exception): the parent's
\* setProperty receives the call.
ParentSetProperty(calls, name) == Append(calls, name)

\* The node's data was taken from v: the string is adopted and the UI command
\* registered; fw are the calls the parent's setProperty has received from
\* this one when it returns. If the conversion threw, data is NULL:
\* JSStringRetain(NULL) and JSStringToStdString(NULL) dereference it (a fault)
\* or pass it by, and the call returns with a NULL data ("null").
TextNodeTake(op, type, v, strs, arg, fw) ==
  IF ToStringThrows(v)
    THEN \/ Abort(op, 0, "segv", 0)
         \/ /\ engine' = [engine EXCEPT
                   !.text = [state |-> "alive", data |-> 0, given |-> v, parent |-> fw],
                   !.jsstrings = strs,
                   !.commands = RegisterCommand(@, type, NoChars)]
            /\ last' = ResultArg(op, 0, 0, "null", NoChars, arg)
            /\ UNCHANGED <<slots, handles, collected, status, misuse>>
    ELSE /\ engine' = [engine EXCEPT
                !.text = [state |-> "alive", data |-> Len(strs) + 1, given |-> v,
                          parent |-> fw],
                !.jsstrings = TextNodeAdopt(strs, v),
                !.commands = RegisterCommand(@, type, ToStringChars(v))]
         /\ last' = ResultArg(op, 0, 0, "ok", ToStringChars(v), arg)
         /\ UNCHANGED <<slots, handles, collected, status, misuse>>

\* JSTextNode::instanceConstructor and TextNodeInstance::TextNodeInstance:
\* `new TextNode(args...)` in script. arguments[0] is read whatever
\* argumentCount is: with no argument it is a read past the array, which
\* yields any value or faults.
TextNodeConstruct(args) ==
  /\ Running /\ engine.text.state = "none" /\ Len(engine.commands) < MaxStrings
  /\ IF Len(args) >= 1
       THEN TextNodeTake("construct", "createTextNode", args[1], engine.jsstrings, args, <<>>)
       ELSE \/ Abort("construct", 0, "segv", 0)
            \/ \E v \in ScriptValues :
                 TextNodeTake("construct", "createTextNode", v, engine.jsstrings, args, <<>>)

\* TextNodeInstance::getProperty(name, exception)
TextNodeGetProperty(name) ==
  /\ Running /\ engine.text.state = "alive"
  /\ LET path == GetPropertyPath(name)
         data == engine.text.data
     IN IF path = "none"
          THEN Abort("getProperty", 0, "noreturn", 0)
          ELSE /\ last' = ResultArg("getProperty", 0, 0, path,
                                    IF path = "data" /\ data # 0
                                      THEN engine.jsstrings[data].chars ELSE NoChars,
                                    name)
               /\ UNCHANGED <<slots, handles, collected, engine, status, misuse>>

\* TextNodeInstance::setProperty(name, value, exception); the parent's
\* setProperty, called last, leaves the text node's own state alone.
TextNodeSetProperty(name, v) ==
  /\ Running /\ engine.text.state = "alive"
  /\ IF name = "data"
       THEN /\ Len(engine.commands) < MaxStrings
            /\ TextNodeTake("setProperty", "setProperty", v,
                            IF engine.text.data # 0
                              THEN StringRelease(engine.jsstrings, engine.text.data)
                              ELSE engine.jsstrings,
                            name, ParentSetProperty(<<>>, name))
       ELSE /\ engine' = [engine EXCEPT !.text.parent = ParentSetProperty(<<>>, name)]
            /\ last' = ResultArg("setProperty", 0, 0, "ok", NoChars, name)
            /\ UNCHANGED <<slots, handles, collected, status, misuse>>

\* TextNodeInstance::~TextNodeInstance()
TextNodeDestroy ==
  /\ Running /\ engine.text.state = "alive"
  /\ engine' = [engine EXCEPT
       !.text.state = "destroyed",
       !.jsstrings = IF engine.text.data # 0 THEN StringRelease(@, engine.text.data) ELSE @]
  /\ last' = Result("destroyText", 0, 0, "ok", 0)
  /\ UNCHANGED <<slots, handles, collected, status, misuse>>

\* ------------------------------------------------------- specifications
\* Ownership: every operation that creates, clones, moves or releases a
\* PointerValue.
Next ==
  \/ \E t \in EntTypes : Create(t)
  \/ \E s \in Slots : PointerMoveConstruct(s)
  \/ \E d, s \in Slots : PointerMoveAssign(d, s)
  \/ \E s \in Slots : PointerDestroy(s)
  \/ \E s \in Slots : PropNameIDClone(s)
  \/ \E s \in Slots : ValueFromPointer(s)
  \/ \E s \in Slots : ValueClone(s)
  \/ \E s \in Slots : ValueMoveConstruct(s)
  \/ \E d, s \in Slots : ValueMoveAssign(d, s)
  \/ \E s \in Slots : ValueDestroy(s)
  \/ \E s \in Slots, kind \in PointerKinds : ValueGetLvalue(s, kind)
  \/ \E s \in Slots, kind \in PointerKinds : ValueGetRvalue(s, kind)
  \/ \E s \in Slots, cls \in RefinedClasses : ObjectGetLvalue(s, cls)
  \/ \E s \in Slots, cls \in RefinedClasses : ObjectGetRvalue(s, cls)

Spec == Init /\ [][Next]_vars

\* Kinds and accessors: Values of every kind are built and every isX, getX and
\* asX is applied to them.
InUse == Cardinality(Slots \ FreeSlots)

NextAccess ==
  \/ \E ctor \in ScalarCtors, b \in BOOLEAN, n \in Numbers :
       InUse < MaxOperands /\ ConstructScalar(ctor, b, n)
  \/ \E t \in EntTypes : InUse < MaxOperands /\ Create(t)
  \/ \E s \in Slots : ValueFromPointer(s)
  \/ \E s \in Slots : ValueDestroy(s)
  \/ \E s \in Slots : PointerDestroy(s)
  \/ \E s \in Slots : ValueGetBool(s)
  \/ \E s \in Slots : ValueGetNumber(s)
  \/ \E s \in Slots : ValueAsNumber(s)
  \/ \E s \in Slots, kind \in PointerKinds : ValueGetLvalue(s, kind)
  \/ \E s \in Slots, kind \in PointerKinds : ValueGetRvalue(s, kind)
  \/ \E s \in Slots, kind \in PointerKinds : ValueAsLvalue(s, kind)
  \/ \E s \in Slots, kind \in PointerKinds : ValueAsRvalue(s, kind)
  \/ \E s \in Slots, cls \in RefinedClasses : ObjectGetLvalue(s, cls)
  \/ \E s \in Slots, cls \in RefinedClasses : ObjectGetRvalue(s, cls)
  \/ \E s \in Slots, cls \in RefinedClasses : ObjectAsLvalue(s, cls)
  \/ \E s \in Slots, cls \in RefinedClasses : ObjectAsRvalue(s, cls)

SpecAccess == Init /\ [][NextAccess]_vars

\* Arrays: indexed reads and writes at every index around the length, while
\* script code changes the length.
Lengths == 0..MaxLen
Indexes == 0..(MaxLen + 1)
\* The number setValueAtIndex writes: one, to tell a written element from an
\* undefined one.
Written == {MaxNum}

NextArray ==
  \/ \E n \in Lengths : ArrayCreate(n)
  \/ \E s \in Slots, i \in Indexes : ArrayGetValueAtIndex(s, i)
  \/ \E s \in Slots, i \in Indexes, d \in Written : ArraySetValueAtIndex(s, i, d)
  \/ \E e \in DOMAIN engine.arrays, n \in Lengths : ScriptSetLength(e, n)
  \/ \E s \in Slots : PointerDestroy(s)
  \/ \E s \in Slots : ValueDestroy(s)

SpecArray == Init /\ [][NextArray]_vars

\* The host bridge: host objects of every payload class are created and
\* downcast, host functions and classes are created, called by script code,
\* and return or raise.
NextHost ==
  \/ \E t \in PayloadTypes : CreateFromHostObject(t)
  \/ \E t \in ObjectTypes : Create(t)
  \/ \E s \in Slots, T \in RequestTypes : ObjectIsHostObject(s, T)
  \/ \E s \in Slots, T \in RequestTypes : ObjectAsHostObject(s, T)
  \/ \E k \in HostCallableKinds : CreateFromHostCallable(k)
  \/ \E e \in DOMAIN engine.hostfns : ScriptInvoke(e)
  \/ HostReturn
  \/ \E m \in Messages : HostRaise(m)
  \/ \E s \in Slots : PointerDestroy(s)

SpecHost == Init /\ [][NextHost]_vars

\* Weak references: objects are created, observed, locked and released while
\* the collector runs.
NextWeak ==
  \/ \E t \in ObjectTypes : Create(t)
  \/ \E s \in Slots : WeakObjectCreate(s)
  \/ \E s \in Slots : WeakLock(s)
  \/ \E s \in Slots : ValueGetRvalue(s, ObjectKind)
  \/ \E e \in 1..(MaxHandles + MaxWeak) : Collect(e)
  \/ \E s \in Slots : PointerDestroy(s)
  \/ \E s \in Slots : ValueDestroy(s)

SpecWeak == Init /\ [][NextWeak]_vars

\* Serialization: script code builds object graphs, acyclic and cyclic, and
\* Values are serialized. toJSON is one synchronous call: once begun, the walk
\* runs on until it returns or throws.
NextJson ==
  \/ \E t \in {"object"} : ~Walking /\ Create(t)
  \/ \E ctor \in {"Value(nullptr)"} : ~Walking /\ ConstructScalar(ctor, FALSE, 0)
  \/ \E s \in Slots : ~Walking /\ ValueFromPointer(s)
  \/ \E a, b \in LiveEntities(handles) : ScriptSetProperty(a, b)
  \/ \E s \in Slots : ValueToJSON(s)
  \/ JsonStep
  \/ \E s \in Slots : ~Walking /\ PointerDestroy(s)

SpecJson == Init /\ [][NextJson]_vars /\ WF_vars(JsonStep)

\* Equality: Values of every kind, references to one entity and to different
\* ones, are compared.
NextEquals ==
  \/ \E ctor \in ScalarCtors, b \in BOOLEAN, n \in Numbers : ConstructScalar(ctor, b, n)
  \/ \E t \in {"symbol", "string", "object"}, c \in Numbers :
       (t # "string" => c = 0) /\ ValueOfNew(t, c)
  \/ \E s \in Slots : ValueCopy(s)
  \/ \E a, b \in Slots : StrictEquals(a, b)
  \/ \E s \in Slots : ValueDestroy(s)

SpecEquals == Init /\ [][NextEquals]_vars

\* Calls: functions and objects are created, and functions are called through
\* every overload, with and without a `this`.
NextCall ==
  \/ \E t \in {"object", "function"} : Create(t)
  \/ \E s \in Slots : ObjectGetRvalue(s, "Function")
  \/ \E f \in Slots, ov \in CallOverloads, ds \in ArgLists : FunctionCall(f, ov, ds)
  \/ \E f, t \in Slots, ov \in CallOverloads, ds \in ArgLists :
       FunctionCallWithThis(f, t, ov, ds)
  \/ \E s \in Slots : PointerDestroy(s)

SpecCall == Init /\ [][NextCall]_vars

\* Text nodes: one is constructed by script code, with an argument or none,
\* its properties are read and written, and it is destroyed.
NextText ==
  \/ \E args \in {<<>>} \cup {<<v>> : v \in ScriptValues} : TextNodeConstruct(args)
  \/ \E name \in PropertyNames : TextNodeGetProperty(name)
  \/ \E name \in PropertyNames, v \in ScriptValues : TextNodeSetProperty(name, v)
  \/ TextNodeDestroy

SpecText == Init /\ [][NextText]_vars

\* Refined casts: objects with and without each capability, and host
\* objects, are cast with every unchecked cast, lvalue and rvalue.
NextCast ==
  \/ \E t \in ObjectTypes \cup BufferTypes : Create(t)
  \/ \E t \in PayloadTypes : CreateFromHostObject(t)
  \/ \E s \in Slots, cls \in CastClasses : ObjectGetLvalue(s, cls)
  \/ \E s \in Slots, cls \in CastClasses : ObjectGetRvalue(s, cls)
  \/ \E s \in Slots, T \in RequestTypes : ObjectGetHostObject(s, T)

SpecCast == Init /\ [][NextCast]_vars

\* ================================================================ claims
\* What destroying wrapper w would do to the PointerValues.
DestroyEffect(hs, w) == IF IsValue(w) THEN ValueDtor(hs, w) ELSE PointerDtor(hs, w)

\* The step cloned slot s's PointerValue into a new wrapper of class cls in d.
ClonedTo(s, d, cls) ==
  LET h == slots[s].ptr
      g == slots'[d].ptr
  IN /\ g = Len(handles) + 1 /\ g # h
     /\ Len(handles') = g /\ Live(handles', g) /\ Live(handles', h)
     /\ handles'[g].ent = handles[h].ent
     /\ AdapterStrictEquals(handles', h, g)
     /\ \A k \in HandleIds : handles'[k] = handles[k]
     /\ slots'[d].cls = cls
     /\ slots'[s] = slots[s]

\* The step handed slot s's PointerValue on to a new wrapper of class cls in d.
MovedTo(s, d, cls) ==
  /\ slots'[d].ptr = slots[s].ptr
  /\ slots'[d].cls = cls
  /\ slots'[s].ptr = 0
  /\ handles' = handles

C2_MoveConstruct ==
  [][last'.op \in {"moveCtor", "valueMoveCtor"} =>
       LET a == last'.src
           b == last'.dst
       IN /\ slots'[a].ptr = 0
          /\ DestroyEffect(handles', slots'[a]) = handles'
          /\ slots'[b].ptr = slots[a].ptr
          /\ slots'[b].cls = slots[a].cls
          /\ slots'[b].kind = slots[a].kind
          /\ \A t \in Slots \ {b} : slots'[b].ptr # 0 => slots'[t].ptr # slots'[b].ptr
          /\ handles' = handles]_vars

\* C2 witness: a Value was move-constructed from one holding a live
\* PointerValue; the source is still in scope and holds none.
C2_Witness ==
  /\ last.op = "valueMoveCtor"
  /\ slots[last.src].cls = "Value" /\ slots[last.src].ptr = 0
  /\ Live(handles, slots[last.dst].ptr)

CloneOps == {"valueClone", "clonePropNameID", "getLvalue"}

\* C3: a clone of a wrapper that holds a live PointerValue yields a second,
\* distinct PointerValue to the same entity (the two are strictEquals); the
\* original keeps its own; destroying either one leaves the other live.
C3_CloneIndependent ==
  [][(last'.op \in CloneOps /\ last'.out = "ok" /\ Live(handles, slots[last'.src].ptr)) =>
       LET a == last'.src
           b == last'.dst
       IN /\ ClonedTo(a, b, slots'[b].cls)
          /\ Live(DestroyEffect(handles', slots'[a]), slots'[b].ptr)
          /\ Live(DestroyEffect(handles', slots'[b]), slots'[a].ptr)]_vars

\* C3 witness: an Object was cloned into a Value; both hold live, distinct
\* PointerValues to one entity.
C3_Witness ==
  /\ last.op = "valueClone" /\ last.out = "ok"
  /\ slots[last.src].cls = "Object" /\ isObject(slots[last.dst])
  /\ Live(handles, slots[last.src].ptr) /\ Live(handles, slots[last.dst].ptr)
  /\ slots[last.src].ptr # slots[last.dst].ptr
  /\ AdapterStrictEquals(handles, slots[last.src].ptr, slots[last.dst].ptr)

\* The kind tests isUndefined .. isObject that hold of w, as their kinds.
KindTests(w) == {k \in ValueKinds : isKind(w, k)}

\* The scalar kind each scalar constructor is given.
KindOfCtor(ctor) ==
  CASE ctor \in {"Value()", "Value::undefined()"} -> UndefinedKind
    [] ctor \in {"Value(nullptr)", "Value::null()"} -> NullKind
    [] ctor = "Value(bool)" -> BooleanKind
    [] OTHER -> NumberKind

\* C4: a Value built from a scalar of kind K satisfies isK() and none of the
\* other six kind tests.
C4_ScalarKinds ==
  last.op \in ScalarCtors => KindTests(slots[last.dst]) = {KindOfCtor(last.op)}

\* C4 witness: Value(nullptr) was built and is null.
C4_Witness == last.op = "Value(nullptr)" /\ isNull(slots[last.dst])

GetOps == {"getBool", "getNumber", "getLvalue", "getRvalue"}

\* The kind X an accessor recorded in r is about.
AccessorKind(r) ==
  CASE r.op = "getBool" -> BooleanKind
    [] r.op \in {"getNumber", "asNumber"} -> NumberKind
    [] OTHER -> r.val

\* C5: every unchecked accessor getX called on a Value whose kind is not X ends
\* in an assertion failure and returns nothing.
C5_GetXFaultsOnWrongKind ==
  [][(last'.op \in GetOps /\ slots[last'.src].kind # AccessorKind(last')) =>
       (status' = "aborted" /\ last'.out = "assert")]_vars

\* The step changed nothing but `last`: the process runs on, every wrapper
\* holds what it held.
OnlyAnswered ==
  /\ status' = "running" /\ slots' = slots /\ handles' = handles /\ misuse' = misuse
  /\ engine' = engine /\ collected' = collected

\* C6: asX answers what getX answers when the value is of kind X (the number;
\* a clone for the lvalue forms; the PointerValue itself for the rvalue forms),
\* and throws when it is not, leaving every wrapper with what it held.
C6_AsXChecked ==
  [][/\ last'.op = "asNumber" =>
          LET w == slots[last'.src] IN
            /\ OnlyAnswered
            /\ IF w.kind = NumberKind
                 THEN last'.out = "ok" /\ last'.val = w.number
                 ELSE last'.out = "throw"
     /\ last'.op \in {"asLvalue", "asRvalue"} =>
          LET w == slots[last'.src] IN
            IF w.kind # last'.val
              THEN last'.out = "throw" /\ OnlyAnswered
              ELSE /\ last'.out # "throw"
                   /\ (last'.op = "asLvalue" /\ Live(handles, w.ptr)) =>
                        /\ last'.out = "ok"
                        /\ ClonedTo(last'.src, last'.dst, ClassOfKind(w.kind))
                   /\ last'.op = "asRvalue" =>
                        /\ last'.out = "ok"
                        /\ MovedTo(last'.src, last'.dst, ClassOfKind(w.kind))
     /\ last'.op \in {"asCastLvalue", "asCastRvalue"} =>
          LET w == slots[last'.src] IN
            Live(handles, w.ptr) =>
              IF handles[w.ptr].type # (IF last'.val = 1 THEN "array" ELSE "function")
                THEN last'.out = "throw" /\ OnlyAnswered
                ELSE /\ last'.out = "ok"
                     /\ last'.op = "asCastLvalue" =>
                          ClonedTo(last'.src, last'.dst,
                                   IF last'.val = 1 THEN "Array" ELSE "Function")
                     /\ last'.op = "asCastRvalue" =>
                          MovedTo(last'.src, last'.dst,
                                  IF last'.val = 1 THEN "Array" ELSE "Function")]_vars

\* C6 witness: asObject() const & threw on a string Value, which still holds
\* its live PointerValue.
C6_Witness ==
  /\ last.op = "asLvalue" /\ last.out = "throw" /\ last.val = ObjectKind
  /\ isString(slots[last.src]) /\ Live(handles, slots[last.src].ptr)

PayloadTypeOf(s) ==
  LET e == EntOf(handles, slots[s].ptr) IN
    IF e \in DOMAIN engine.hosts THEN engine.hosts[e].type ELSE "none"

\* C8: on an Object created by createFromHostObject with a payload of class T,
\* isHostObject<T>() is true and asHostObject<T>() returns that payload; on an
\* Object whose payload is of an unrelated class U, or that is no host object,
\* isHostObject<T>() is false and asHostObject<T>() raises a catchable error
\* and returns no payload: the process runs on, nothing changes, and no U
\* payload is returned as a T.
C8_HostObjectDowncast ==
  [][(last'.op \in {"isHostObject", "asHostObject"} /\ last'.arg = "T") =>
       LET e == EntOf(handles, slots[last'.src].ptr)
           dyn == PayloadTypeOf(last'.src)
       IN /\ OnlyAnswered
          /\ dyn = "T" =>
               IF last'.op = "isHostObject" THEN last'.val = 1
               ELSE last'.out = "ok" /\ last'.val = engine.hosts[e].id
          /\ dyn \in {"U", "none"} =>
               IF last'.op = "isHostObject" THEN last'.val = 0
               ELSE last'.out = "throw" /\ last'.val = 0
          /\ (last'.op = "asHostObject" /\ last'.out = "ok") =>
               /\ last'.val \in DOMAIN engine.hosts
               /\ IsA(engine.hosts[last'.val].type, "T")]_vars

\* C8 witness: asHostObject<T>() raised on an Object backed by a U payload.
C8_Witness ==
  /\ last.op = "asHostObject" /\ last.arg = "T" /\ last.out = "throw"
  /\ status = "running" /\ Live(handles, slots[last.src].ptr)
  /\ PayloadTypeOf(last.src) = "U"

\* C9: when the engine has entered a host function or host class and the
\* native callable raises, the calling script observes a thrown script error
\* with the native error's message, the call's frame is left in the ordinary
\* way, the process runs on, nothing the native side holds changes, and script
\* code can call a host callable again.
C9_HostRaiseBecomesScriptError ==
  /\ [][last'.op = "hostRaise" =>
          /\ status' = "running" /\ last'.out = "scriptError"
          /\ engine'.thrown = last'.val /\ last'.val \in Messages
          /\ engine'.frames = SubSeq(engine.frames, 1, Len(engine.frames) - 1)
          /\ slots' = slots /\ handles' = handles /\ misuse' = misuse]_vars
  /\ []((last.op = "hostRaise" /\ engine.frames = <<>>) =>
          \A e \in DOMAIN engine.hostfns : ENABLED ScriptInvoke(e))

\* C9 witness: a host class called by script raised the message MaxMsg, which
\* the script observes; the engine is out of the call.
C9_Witness ==
  /\ last.op = "hostRaise" /\ last.out = "scriptError" /\ last.val = MaxMsg
  /\ engine.thrown = MaxMsg /\ engine.frames = <<>> /\ status = "running"
  /\ \E e \in DOMAIN engine.hostfns : engine.hostfns[e] = "class" /\ ENABLED ScriptInvoke(e)
\* The entities some live weak PointerValue observes.
ObservedEntities == {handles[h].ent : h \in {g \in HandleIds : Live(handles, g) /\ handles[g].weak}}

\* C10: lock returns a Value for the referent while the referent has not been
\* collected, and undefined once it has; the Value returned holds a strong
\* PointerValue of its own to the referent; an entity some strong PointerValue
\* refers to is never collected and cannot be; an entity only WeakObjects
\* observe can be collected.
C10_WeakLock ==
  /\ [][last'.op = "lock" =>
          LET e == EntOf(handles, slots[last'.src].ptr)
              d == last'.dst
          IN /\ status' = "running" /\ collected' = collected
             /\ slots'[last'.src] = slots[last'.src]
             /\ IF e \in collected
                  THEN /\ last'.out = "undefined" /\ handles' = handles
                       /\ d # 0 => isUndefined(slots'[d])
                  ELSE /\ last'.out = "object"
                       /\ d # 0 =>
                            /\ isObject(slots'[d]) /\ Live(handles', slots'[d].ptr)
                            /\ slots'[d].ptr \notin HandleIds
                            /\ ~handles'[slots'[d].ptr].weak
                            /\ handles'[slots'[d].ptr].ent = e]_vars
  /\ [](\A h \in HandleIds :
          (Live(handles, h) /\ ~handles[h].weak) =>
             (handles[h].ent \notin collected /\ ~ENABLED Collect(handles[h].ent)))
  /\ [](\A e \in ObservedEntities :
          (status = "running" /\ e \notin collected /\ ~Strong(handles, e)) =>
             ENABLED Collect(e))

\* C10 witness: the only strong reference was released, the collector ran, and
\* lock on the WeakObject that is left returned undefined.
C10_Witness ==
  /\ last.op = "lock" /\ last.out = "undefined" /\ last.dst # 0
  /\ isUndefined(slots[last.dst])
  /\ Live(handles, slots[last.src].ptr)
  /\ EntOf(handles, slots[last.src].ptr) \in collected
\* The objects reachable from the objects in S over at most k references.
RECURSIVE ReachIn(_, _, _)
ReachIn(g, S, k) ==
  IF k = 0 THEN S
  ELSE ReachIn(g, S \cup UNION {{Children(g, e)[j] : j \in 1..Len(Children(g, e))} : e \in S},
               k - 1)

\* The objects a path of one reference or more leads to from e.
Below(g, e) ==
  ReachIn(g, {Children(g, e)[j] : j \in 1..Len(Children(g, e))}, Edges(g))

\* The graph under e contains a reference cycle.
Cyclic(g, e) == \E n \in ReachIn(g, {e}, Edges(g)) : n \in Below(g, n)

\* The objects a full walk of the acyclic graph under e enters, each as often
\* as it is referred to.
RECURSIVE TreeSize(_, _)
TreeSize(g, e) ==
  LET c == Children(g, e)
      RECURSIVE Sum(_)
      Sum(j) == IF j = 0 THEN 0 ELSE TreeSize(g, c[j]) + Sum(j - 1)
  IN 1 + Sum(Len(c))

\* C11: toJSON terminates on every input: a walk that has begun ends; on an
\* acyclic graph it returns after entering every object once per reference to
\* it, on a graph with a reference cycle it ends with a serialization error;
\* the walk is never inside one object twice, and changes no object or wrapper.
C11_ToJSONTerminates ==
  /\ Walking ~> ~Walking
  /\ [][(last'.op = "toJSON" /\ last.op \in {"toJSONBegin", "toJSONStep"}) =>
          LET e == EntOf(handles, slots[last'.src].ptr) IN
            /\ status' = "running" /\ engine'.graph = engine.graph
            /\ IF Cyclic(engine.graph, e) THEN last'.out = "throw"
               ELSE last'.out = "ok" /\ last'.val = TreeSize(engine.graph, e)]_vars
  /\ [](\A j, k \in 1..Len(engine.walk) : engine.walk[j].node = engine.walk[k].node => j = k)

\* C11 witness: toJSON ended with a serialization error on an object whose
\* property refers back to it through a second object.
C11_Witness ==
  /\ last.op = "toJSON" /\ last.out = "throw" /\ ~Walking
  /\ LET e == EntOf(handles, slots[last.src].ptr) IN
       \E n \in Below(engine.graph, e) : n # e /\ e \in Below(engine.graph, n)
\* Two scalars of one kind have the same value.
SameScalar(a, b) ==
  CASE a.kind = BooleanKind -> a.boolean = b.boolean
    [] a.kind = NumberKind -> a.number = b.number
    [] OTHER -> TRUE

\* C12 as stated: strictEquals(a, b) is false when a and b have different
\* kinds, compares by value when both are scalars of one kind, and for symbols,
\* strings and objects is true exactly when a and b refer to the same engine
\* entity.
C12_StrictEqualsByEntity ==
  [][last'.op = "strictEquals" =>
       LET a == slots[last'.src]
           b == slots[last'.dst]
       IN last'.val = BoolVal(/\ a.kind = b.kind
                              /\ IF IsPointerKind(a.kind)
                                   THEN handles[a.ptr].ent = handles[b.ptr].ent
                                   ELSE SameScalar(a, b))]_vars

\* C12 amended: as above, but two strings are strictEquals exactly when they
\* contain the same characters (so also when they are one entity); symbols and
\* objects exactly when they are the same entity.
C12_StrictEqualsStringsByCharacters ==
  [][last'.op = "strictEquals" =>
       LET a == slots[last'.src]
           b == slots[last'.dst]
       IN /\ OnlyAnswered
          /\ last'.val = BoolVal(/\ a.kind = b.kind
                                 /\ CASE a.kind = StringKind ->
                                           handles[a.ptr].chars = handles[b.ptr].chars
                                      [] a.kind \in {SymbolKind, ObjectKind} ->
                                           handles[a.ptr].ent = handles[b.ptr].ent
                                      [] OTHER -> SameScalar(a, b))]_vars

\* C12 witness: two string Values that are different entities with the same
\* characters were compared and found equal.
C12_Witness ==
  /\ last.op = "strictEquals" /\ last.val = 1 /\ last.src # last.dst
  /\ isString(slots[last.src]) /\ isString(slots[last.dst])
  /\ handles[slots[last.src].ptr].ent # handles[slots[last.dst].ptr].ent
  /\ handles[slots[last.src].ptr].chars = handles[slots[last.dst].ptr].chars

C14_GetPropertyTotal ==
  [][last'.op = "getProperty" =>
       /\ status' = "running" /\ engine' = engine
       /\ last'.out = CASE last'.arg \in {"data", "textContent"} -> "data"
                        [] last'.arg = "nodeName" -> "#text"
                        [] OTHER -> "parent"
       /\ last'.out = "data" =>
            last'.val = IF engine.text.data = 0 THEN NoChars
                        ELSE engine.jsstrings[engine.text.data].chars]_vars

\* C14 witness: getProperty of a name the property map does not hold went to
\* the parent.
C14_Witness ==
  /\ last.op = "getProperty" /\ last.arg = "nodeType" /\ last.out = "parent"
  /\ engine.text.state = "alive"

\* C15: a = std::move(b) on Values invalidates the PointerValue a held exactly
\* once, gives a the kind and PointerValue of b and leaves b with none; when a
\* and b are the same Value, a keeps its kind and its PointerValue stays live.
C15_ValueMoveAssign ==
  [][last'.op = "valueMoveAssign" /\ last'.out = "ok" =>
       LET a == last'.dst
           b == last'.src
           old == slots[a].ptr
       IN IF a = b
            THEN /\ slots'[a] = slots[a]
                 /\ handles' = handles
            ELSE /\ old # 0 /\ slots[b].ptr # old => handles'[old].inv = handles[old].inv + 1
                 /\ \A h \in HandleIds \ {old} : handles'[h] = handles[h]
                 /\ slots'[a].kind = slots[b].kind
                 /\ slots'[a].ptr = slots[b].ptr
                 /\ slots'[b].ptr = 0]_vars
\* The wrapper class a cast recorded under CastId n returns.
ClassOfCast(n) == CHOOSE cls \in CastClasses : CastId(cls) = n

\* C16: a refined cast that returns gives a wrapper of the refined class for
\* the entity the source refers to. The rvalue form hands the source's
\* PointerValue over: the source holds none afterwards and no PointerValue is
\* made or invalidated. The lvalue form leaves the source as it was and makes
\* a PointerValue for the same entity: no entity is new.
C16_CastSameEntity ==
  [][last'.op \in {"castLvalue", "castRvalue"} /\ last'.out = "ok" =>
       LET s == last'.src
           d == last'.dst
       IN /\ slots'[d].cls = ClassOfCast(last'.val)
          /\ IF last'.op = "castRvalue"
               THEN /\ slots'[d].ptr = slots[s].ptr
                    /\ slots'[s].ptr = 0
                    /\ handles' = handles
               ELSE /\ slots'[s] = slots[s]
                    /\ Live(handles', slots'[s].ptr)
                    /\ Live(handles', slots'[d].ptr)
                    /\ slots'[d].ptr # slots[s].ptr
                    /\ EntOf(handles', slots'[d].ptr) = EntOf(handles, slots[s].ptr)
                    /\ SubSeq(handles', 1, Len(handles)) = handles
                    /\ {handles'[h].ent : h \in 1..Len(handles')}
                         = {handles[h].ent : h \in 1..Len(handles)}]_vars

\* C16 witness: getArrayBuffer(context) && returned an ArrayBuffer holding the
\* live PointerValue of an array buffer; the source is in scope and holds none.
C16_Witness ==
  /\ last.op = "castRvalue" /\ last.out = "ok" /\ last.val = CastId("ArrayBuffer")
  /\ slots[last.dst].cls = "ArrayBuffer"
  /\ Live(handles, slots[last.dst].ptr)
  /\ handles[slots[last.dst].ptr].type = "arraybuffer"
  /\ slots[last.src].cls = "Object" /\ slots[last.src].ptr = 0

\* C17: an unchecked refined cast (getArray, getArrayBuffer,
\* getArrayBufferView, getFunction, lvalue or rvalue, and getHostObject<T>)
\* returns only when the capability test holds of the source; where the test
\* is false the cast faults.
C17_UncheckedCastsAssert ==
  [][/\ last'.op \in {"castLvalue", "castRvalue"} /\ last'.out = "ok" =>
          /\ Live(handles, slots[last'.src].ptr)
          /\ HasCapability(handles, slots[last'.src].ptr, ClassOfCast(last'.val))
     /\ last'.op = "getHostObject" /\ last'.out = "ok" =>
          isHostObject(engine, EntOf(handles, slots[last'.src].ptr), last'.arg)]_vars

\* C18: getProperty("data") and getProperty("textContent") return the string
\* conversion of the value the node's data was last taken from: the v of the
\* last setProperty("data", v), or the constructor's argument before any.
C18_DataReadsBackLastSet ==
  [][/\ last'.op = "getProperty" /\ last'.arg \in {"data", "textContent"}
     /\ ~ToStringThrows(engine.text.given)
     => /\ last'.out = "data"
        /\ last'.val = ToStringChars(engine.text.given)
        /\ engine'.text = engine.text]_vars

\* C18 witness: the node was constructed with one string and set to another;
\* getProperty("textContent") returned the second.
C18_Witness ==
  /\ last.op = "getProperty" /\ last.arg = "textContent" /\ last.out = "data"
  /\ Len(engine.commands) = 2
  /\ engine.commands[1].type = "createTextNode" /\ engine.commands[2].type = "setProperty"
  /\ engine.commands[1].chars # engine.commands[2].chars
  /\ engine.commands[1].chars # NoChars
  /\ last.val = engine.commands[2].chars /\ last.val # NoChars
  /\ last.val = ToStringChars(engine.text.given)

\* C19: every Value in scope whose kind is symbol, string or object (isSymbol,
\* isString or isObject holds of it) holds a live PointerValue.
C19_PointerKindHasLiveHandle ==
  \A s \in Slots :
    IsValue(slots[s]) /\ (\E kind \in PointerKinds : isKind(slots[s], kind))
      => Live(handles, slots[s].ptr)

\* C20: no data string is released more often than the node acquired it, and
\* once the node is destroyed every data string it held has been released as
\* often as it was acquired (by the string copy and by JSStringRetain).
C20_StringReferencesBalanced ==
  /\ \A k \in 1..Len(engine.jsstrings) :
       engine.jsstrings[k].released <= engine.jsstrings[k].acquired
  /\ engine.text.state = "destroyed" =>
       \A k \in 1..Len(engine.jsstrings) :
         engine.jsstrings[k].released = engine.jsstrings[k].acquired

\* C21: the node's commands are one createTextNode command followed by
\* setProperty commands only: the constructor registers the one, each
\* setProperty("data", v) that returns registers one more, at the end of the
\* queue and with the string taken from its v, and nothing else registers any.
C21_CommandsInCallOrder ==
  /\ [][IF last'.op = "construct" /\ status' = "running"
          THEN /\ engine.commands = <<>>
               /\ Len(engine'.commands) = 1
               /\ engine'.commands[1].type = "createTextNode"
          ELSE IF last'.op = "setProperty" /\ last'.arg = "data" /\ status' = "running"
            THEN engine'.commands =
                   Append(engine.commands,
                          [type |-> "setProperty",
                           chars |-> IF ToStringThrows(engine'.text.given) THEN NoChars
                                     ELSE ToStringChars(engine'.text.given)])
            ELSE status' = "running" => engine'.commands = engine.commands]_vars
  /\ [](engine.text.state # "none" =>
          /\ Len(engine.commands) >= 1
          /\ engine.commands[1].type = "createTextNode"
          /\ \A k \in 2..Len(engine.commands) : engine.commands[k].type = "setProperty")

\* C21 witness: the node was constructed and its data set twice, to two
\* different strings; the queue holds the three commands in that order.
C21_Witness ==
  /\ last.op = "setProperty" /\ last.arg = "data" /\ last.out = "ok"
  /\ Len(engine.commands) = 3
  /\ engine.commands[1].type = "createTextNode"
  /\ engine.commands[2].type = "setProperty" /\ engine.commands[3].type = "setProperty"
  /\ engine.commands[2].chars # engine.commands[3].chars
  /\ engine.commands[3].chars = last.val

\* C22: the constructor takes its data from the first argument when one was
\* passed and reads no argument when none was; a construction with no
\* argument, or with one whose string conversion fails, neither faults nor
\* leaves the node with a NULL string it has passed to JSStringRetain.
C22_ConstructorReadsOnlyPassedArgument ==
  [][last'.op = "construct" =>
       /\ last'.out = "ok"
       /\ IF Len(last'.arg) >= 1
            THEN engine'.text.given = last'.arg[1]
            ELSE engine'.text.given.kind = "none"]_vars

\* C23: setProperty with a name other than "data" leaves the node's data
\* string, every string's references and the command queue as they were; and
\* every setProperty that returns, for "data" too, has forwarded the call to
\* the parent's setProperty exactly once, under the same name.
C23_SetPropertyFrame ==
  [][last'.op = "setProperty" /\ status' = "running" =>
       /\ engine'.text.parent = <<last'.arg>>
       /\ last'.arg # "data" =>
            /\ engine'.text.data = engine.text.data
            /\ engine'.text.given = engine.text.given
            /\ engine'.text.state = engine.text.state
            /\ engine'.jsstrings = engine.jsstrings
            /\ engine'.commands = engine.commands]_vars

\* C23 witness: setProperty("textContent", v) returned on a node whose data
\* was taken from another value; the node still holds that string and one
\* command, and the parent received the call.
C23_Witness ==
  /\ last.op = "setProperty" /\ last.arg = "textContent"
  /\ engine.text.parent = <<"textContent">>
  /\ engine.text.state = "alive" /\ engine.text.data = 1
  /\ engine.jsstrings[1].rc = 2
  /\ Len(engine.commands) = 1
====
